---- MODULE Spec2Model ----
(***************************************************************************)
(* A model of the js-assignments katas.  Every kata is an independent      *)
(* function: each one has a variable holding the activation of one call    *)
(* (its argument, its locals under the names the source uses, and what it  *)
(* returned, yielded or threw) and a specification of its own in which the *)
(* other katas stay idle.                                                  *)
(*                                                                         *)
(* JavaScript strings are sequences of one-character strings; array index  *)
(* k of the source is index k + 1 here.                                    *)
(***************************************************************************)
EXTENDS Integers, Sequences, FiniteSets, TLC

VARIABLES urlShortener, stock, cssSelector, permutations, braces, poker,
          wrap, bank, compass, merge, snaking, dominoes, ranges, zigzag,
          figure

vars == <<urlShortener, stock, cssSelector, permutations, braces, poker,
          wrap, bank, compass, merge, snaking, dominoes, ranges, zigzag,
          figure>>

\* The activation of a kata that is not being called.
Idle == [pc |-> "idle"]

\* The katas share no state and call nothing of one another: while one is
\* called (Only...) the others do not move, and a specification of one kata
\* starts with the others idle (Alone...).
OnlyUrlShortener ==
    UNCHANGED <<stock, cssSelector, permutations, braces, poker, wrap, bank,
               compass, merge, snaking, dominoes, ranges, zigzag, figure>>

AloneUrlShortener ==
    /\ stock = Idle
    /\ cssSelector = Idle
    /\ permutations = Idle
    /\ braces = Idle
    /\ poker = Idle
    /\ wrap = Idle
    /\ bank = Idle
    /\ compass = Idle
    /\ merge = Idle
    /\ snaking = Idle
    /\ dominoes = Idle
    /\ ranges = Idle
    /\ zigzag = Idle
    /\ figure = Idle

OnlyStock ==
    UNCHANGED <<urlShortener, cssSelector, permutations, braces, poker,
               wrap, bank, compass, merge, snaking, dominoes, ranges,
               zigzag, figure>>

AloneStock ==
    /\ urlShortener = Idle
    /\ cssSelector = Idle
    /\ permutations = Idle
    /\ braces = Idle
    /\ poker = Idle
    /\ wrap = Idle
    /\ bank = Idle
    /\ compass = Idle
    /\ merge = Idle
    /\ snaking = Idle
    /\ dominoes = Idle
    /\ ranges = Idle
    /\ zigzag = Idle
    /\ figure = Idle

OnlyCssSelector ==
    UNCHANGED <<urlShortener, stock, permutations, braces, poker, wrap,
               bank, compass, merge, snaking, dominoes, ranges, zigzag,
               figure>>

AloneCssSelector ==
    /\ urlShortener = Idle
    /\ stock = Idle
    /\ permutations = Idle
    /\ braces = Idle
    /\ poker = Idle
    /\ wrap = Idle
    /\ bank = Idle
    /\ compass = Idle
    /\ merge = Idle
    /\ snaking = Idle
    /\ dominoes = Idle
    /\ ranges = Idle
    /\ zigzag = Idle
    /\ figure = Idle

OnlyPermutations ==
    UNCHANGED <<urlShortener, stock, cssSelector, braces, poker, wrap, bank,
               compass, merge, snaking, dominoes, ranges, zigzag, figure>>

AlonePermutations ==
    /\ urlShortener = Idle
    /\ stock = Idle
    /\ cssSelector = Idle
    /\ braces = Idle
    /\ poker = Idle
    /\ wrap = Idle
    /\ bank = Idle
    /\ compass = Idle
    /\ merge = Idle
    /\ snaking = Idle
    /\ dominoes = Idle
    /\ ranges = Idle
    /\ zigzag = Idle
    /\ figure = Idle

OnlyBraces ==
    UNCHANGED <<urlShortener, stock, cssSelector, permutations, poker, wrap,
               bank, compass, merge, snaking, dominoes, ranges, zigzag,
               figure>>

AloneBraces ==
    /\ urlShortener = Idle
    /\ stock = Idle
    /\ cssSelector = Idle
    /\ permutations = Idle
    /\ poker = Idle
    /\ wrap = Idle
    /\ bank = Idle
    /\ compass = Idle
    /\ merge = Idle
    /\ snaking = Idle
    /\ dominoes = Idle
    /\ ranges = Idle
    /\ zigzag = Idle
    /\ figure = Idle

OnlyPoker ==
    UNCHANGED <<urlShortener, stock, cssSelector, permutations, braces,
               wrap, bank, compass, merge, snaking, dominoes, ranges,
               zigzag, figure>>

AlonePoker ==
    /\ urlShortener = Idle
    /\ stock = Idle
    /\ cssSelector = Idle
    /\ permutations = Idle
    /\ braces = Idle
    /\ wrap = Idle
    /\ bank = Idle
    /\ compass = Idle
    /\ merge = Idle
    /\ snaking = Idle
    /\ dominoes = Idle
    /\ ranges = Idle
    /\ zigzag = Idle
    /\ figure = Idle

OnlyWrap ==
    UNCHANGED <<urlShortener, stock, cssSelector, permutations, braces,
               poker, bank, compass, merge, snaking, dominoes, ranges,
               zigzag, figure>>

AloneWrap ==
    /\ urlShortener = Idle
    /\ stock = Idle
    /\ cssSelector = Idle
    /\ permutations = Idle
    /\ braces = Idle
    /\ poker = Idle
    /\ bank = Idle
    /\ compass = Idle
    /\ merge = Idle
    /\ snaking = Idle
    /\ dominoes = Idle
    /\ ranges = Idle
    /\ zigzag = Idle
    /\ figure = Idle

OnlyBank ==
    UNCHANGED <<urlShortener, stock, cssSelector, permutations, braces,
               poker, wrap, compass, merge, snaking, dominoes, ranges,
               zigzag, figure>>

AloneBank ==
    /\ urlShortener = Idle
    /\ stock = Idle
    /\ cssSelector = Idle
    /\ permutations = Idle
    /\ braces = Idle
    /\ poker = Idle
    /\ wrap = Idle
    /\ compass = Idle
    /\ merge = Idle
    /\ snaking = Idle
    /\ dominoes = Idle
    /\ ranges = Idle
    /\ zigzag = Idle
    /\ figure = Idle

OnlyCompass ==
    UNCHANGED <<urlShortener, stock, cssSelector, permutations, braces,
               poker, wrap, bank, merge, snaking, dominoes, ranges, zigzag,
               figure>>

AloneCompass ==
    /\ urlShortener = Idle
    /\ stock = Idle
    /\ cssSelector = Idle
    /\ permutations = Idle
    /\ braces = Idle
    /\ poker = Idle
    /\ wrap = Idle
    /\ bank = Idle
    /\ merge = Idle
    /\ snaking = Idle
    /\ dominoes = Idle
    /\ ranges = Idle
    /\ zigzag = Idle
    /\ figure = Idle

OnlyMerge ==
    UNCHANGED <<urlShortener, stock, cssSelector, permutations, braces,
               poker, wrap, bank, compass, snaking, dominoes, ranges,
               zigzag, figure>>

AloneMerge ==
    /\ urlShortener = Idle
    /\ stock = Idle
    /\ cssSelector = Idle
    /\ permutations = Idle
    /\ braces = Idle
    /\ poker = Idle
    /\ wrap = Idle
    /\ bank = Idle
    /\ compass = Idle
    /\ snaking = Idle
    /\ dominoes = Idle
    /\ ranges = Idle
    /\ zigzag = Idle
    /\ figure = Idle

OnlySnaking ==
    UNCHANGED <<urlShortener, stock, cssSelector, permutations, braces,
               poker, wrap, bank, compass, merge, dominoes, ranges, zigzag,
               figure>>

AloneSnaking ==
    /\ urlShortener = Idle
    /\ stock = Idle
    /\ cssSelector = Idle
    /\ permutations = Idle
    /\ braces = Idle
    /\ poker = Idle
    /\ wrap = Idle
    /\ bank = Idle
    /\ compass = Idle
    /\ merge = Idle
    /\ dominoes = Idle
    /\ ranges = Idle
    /\ zigzag = Idle
    /\ figure = Idle

OnlyDominoes ==
    UNCHANGED <<urlShortener, stock, cssSelector, permutations, braces,
               poker, wrap, bank, compass, merge, snaking, ranges, zigzag,
               figure>>

AloneDominoes ==
    /\ urlShortener = Idle
    /\ stock = Idle
    /\ cssSelector = Idle
    /\ permutations = Idle
    /\ braces = Idle
    /\ poker = Idle
    /\ wrap = Idle
    /\ bank = Idle
    /\ compass = Idle
    /\ merge = Idle
    /\ snaking = Idle
    /\ ranges = Idle
    /\ zigzag = Idle
    /\ figure = Idle

OnlyRanges ==
    UNCHANGED <<urlShortener, stock, cssSelector, permutations, braces,
               poker, wrap, bank, compass, merge, snaking, dominoes,
               zigzag, figure>>

AloneRanges ==
    /\ urlShortener = Idle
    /\ stock = Idle
    /\ cssSelector = Idle
    /\ permutations = Idle
    /\ braces = Idle
    /\ poker = Idle
    /\ wrap = Idle
    /\ bank = Idle
    /\ compass = Idle
    /\ merge = Idle
    /\ snaking = Idle
    /\ dominoes = Idle
    /\ zigzag = Idle
    /\ figure = Idle

OnlyZigZag ==
    UNCHANGED <<urlShortener, stock, cssSelector, permutations, braces,
               poker, wrap, bank, compass, merge, snaking, dominoes,
               ranges, figure>>

AloneZigZag ==
    /\ urlShortener = Idle
    /\ stock = Idle
    /\ cssSelector = Idle
    /\ permutations = Idle
    /\ braces = Idle
    /\ poker = Idle
    /\ wrap = Idle
    /\ bank = Idle
    /\ compass = Idle
    /\ merge = Idle
    /\ snaking = Idle
    /\ dominoes = Idle
    /\ ranges = Idle
    /\ figure = Idle

OnlyFigure ==
    UNCHANGED <<urlShortener, stock, cssSelector, permutations, braces,
               poker, wrap, bank, compass, merge, snaking, dominoes,
               ranges, zigzag>>

AloneFigure ==
    /\ urlShortener = Idle
    /\ stock = Idle
    /\ cssSelector = Idle
    /\ permutations = Idle
    /\ braces = Idle
    /\ poker = Idle
    /\ wrap = Idle
    /\ bank = Idle
    /\ compass = Idle
    /\ merge = Idle
    /\ snaking = Idle
    /\ dominoes = Idle
    /\ ranges = Idle
    /\ zigzag = Idle

\* ------------------------------------------------------------------------
\* Helpers over sequences
\* ------------------------------------------------------------------------

\* All sequences over S of length 0..n.
SeqUpTo(S, n) == UNION {[1..k -> S] : k \in 0..n}

\* Array.prototype.indexOf / String.prototype.indexOf for one element:
\* the 0-based position of the first occurrence, -1 when there is none.
IndexOf(seq, x) ==
    IF \E k \in 1..Len(seq) : seq[k] = x
    THEN (CHOOSE k \in 1..Len(seq) : seq[k] = x /\ \A j \in 1..(k - 1) : seq[j] # x) - 1
    ELSE -1

Front(seq) == SubSeq(seq, 1, Len(seq) - 1)

Last(seq) == seq[Len(seq)]

\* ------------------------------------------------------------------------
\* UrlShortener
\* ------------------------------------------------------------------------

\* Longest url the model encodes (84^4 still fits TLC's integers).
MaxUrlLen == 3

urlAllowedChars ==
    << "A","B","C","D","E","F","G","H","I","J","K","L","M",
       "N","O","P","Q","R","S","T","U","V","W","X","Y","Z",
       "a","b","c","d","e","f","g","h","i","j","k","l","m",
       "n","o","p","q","r","s","t","u","v","w","x","y","z",
       "0","1","2","3","4","5","6","7","8","9",
       "-","_",".","~","!","*","'","(",")",";",":","@","&","=","+","$",",","/","?","#","[","]" >>

base == Len(urlAllowedChars)

\* The first loop of encode and of decode: the string read as a base-`base`
\* numeral, most significant character first.
RECURSIVE ToNum(_)
ToNum(str) ==
    IF str = <<>> THEN 0
    ELSE ToNum(Front(str)) * base + IndexOf(urlAllowedChars, Last(str))

\* The second loop of encode and of decode: the digits of num, most
\* significant first; the empty string for 0.
RECURSIVE Render(_)
Render(num) ==
    IF num > 0
    THEN Render(num \div base) \o <<urlAllowedChars[(num % base) + 1]>>
    ELSE <<>>

encode(url) ==
    LET short == Render(ToNum(url))
    IN  IF short = <<>> THEN <<urlAllowedChars[1]>> ELSE short

decode(code) == Render(ToNum(code))

\* The characters the model draws urls from: the first two of the alphabet
\* and the last.
UrlChars == {urlAllowedChars[1], urlAllowedChars[2], urlAllowedChars[base]}

InitUrlShortener ==
    /\ urlShortener \in
         {[pc |-> "encode", url |-> u, shortLink |-> <<>>, original |-> <<>>] :
            u \in SeqUpTo(UrlChars, MaxUrlLen)}
    /\ AloneUrlShortener

\* var shortLink = urlShortener.encode(url)
Encode ==
    /\ urlShortener.pc = "encode"
    /\ urlShortener' = [urlShortener EXCEPT !.pc = "decode",
                                            !.shortLink = encode(urlShortener.url)]
    /\ OnlyUrlShortener

\* var original = urlShortener.decode(shortLink)
Decode ==
    /\ urlShortener.pc = "decode"
    /\ urlShortener' = [urlShortener EXCEPT !.pc = "done",
                                            !.original = decode(urlShortener.shortLink)]
    /\ OnlyUrlShortener

NextUrlShortener == Encode \/ Decode

SpecUrlShortener == InitUrlShortener /\ [][NextUrlShortener]_vars

\* C1: for every string s over urlAllowedChars, of any length and with any
\* first character, decode(encode(s)) = s.
RoundTrip ==
    urlShortener.pc = "done" => urlShortener.original = urlShortener.url

\* C18: the string returned by encode is at least 1.5 times shorter than
\* the url: 1.5 * length(encode(url)) <= length(url), here with both sides
\* doubled.
ShortLinkIsShorter ==
    urlShortener.pc \in {"decode", "done"} =>
        3 * Len(urlShortener.shortLink) <= 2 * Len(urlShortener.url)

\* ------------------------------------------------------------------------
\* getMostProfitFromStockQuotes
\* ------------------------------------------------------------------------

\* Longest quote list and highest price the model draws.
MaxQuotes == 4
MaxQuote == 3

InitStock ==
    /\ stock \in
         {[pc |-> "loop", quotes |-> q, i |-> Len(q), profit |-> 0,
           buySum |-> 0, buyCount |-> 0, maxPrice |-> 0] :
            q \in SeqUpTo(1..MaxQuote, MaxQuotes)}
    /\ AloneStock

\* One iteration of the loop, for the quote of day i, which is a new
\* maximum.
StockNewMax ==
    /\ stock.pc = "loop"
    /\ stock.i >= 1
    /\ stock.quotes[stock.i] > stock.maxPrice
    /\ stock' = [stock EXCEPT
                   !.profit = stock.profit
                              + stock.buyCount * (stock.quotes[stock.i] - stock.maxPrice),
                   !.maxPrice = stock.quotes[stock.i],
                   !.buySum = 0,
                   !.buyCount = 0,
                   !.i = stock.i - 1]
    /\ OnlyStock

\* One iteration of the loop, for a quote that is no new maximum.
StockBuy ==
    /\ stock.pc = "loop"
    /\ stock.i >= 1
    /\ ~(stock.quotes[stock.i] > stock.maxPrice)
    /\ stock' = [stock EXCEPT
                   !.buySum = stock.buySum + stock.quotes[stock.i],
                   !.buyCount = stock.buyCount + 1,
                   !.profit = stock.profit + (stock.maxPrice - stock.quotes[stock.i]),
                   !.i = stock.i - 1]
    /\ OnlyStock

\* return profit
StockReturn ==
    /\ stock.pc = "loop"
    /\ stock.i < 1
    /\ stock' = [stock EXCEPT !.pc = "done"]
    /\ OnlyStock

NextStock == StockNewMax \/ StockBuy \/ StockReturn

SpecStock == InitStock /\ [][NextStock]_vars

\* The largest price on day i or later.
RECURSIVE MaxFrom(_, _)
MaxFrom(q, i) ==
    IF i = Len(q) THEN q[i]
    ELSE IF q[i] > MaxFrom(q, i + 1) THEN q[i] ELSE MaxFrom(q, i + 1)

\* The sum over the days i..Len(q) of (largest later-or-equal price - price).
RECURSIVE BestProfitFrom(_, _)
BestProfitFrom(q, i) ==
    IF i > Len(q) THEN 0
    ELSE (MaxFrom(q, i) - q[i]) + BestProfitFrom(q, i + 1)

\* C2: getMostProfitFromStockQuotes returns the sum over every day i of
\* (the largest price on day i or later minus the price on day i).
ProfitIsBest ==
    stock.pc = "done" => stock.profit = BestProfitFrom(stock.quotes, 1)

\* ------------------------------------------------------------------------
\* CssSelector / cssSelectorBuilder
\* ------------------------------------------------------------------------

\* Most calls made on one selector chain.
MaxCalls == 4

\* JavaScript's null, and a JavaScript string.
JsNull == [t |-> "null"]
JsString(s) == [t |-> "string", s |-> s]

\* ToBoolean of a string-or-null value: null and '' are falsy.
Truthy(v) == v.t = "string" /\ v.s # <<>>

\* v || '' as a string.
OrEmpty(v) == IF Truthy(v) THEN v.s ELSE <<>>

\* Array.prototype.join('') of an array of strings.
RECURSIVE JoinEmpty(_)
JoinEmpty(arr) == IF arr = <<>> THEN <<>> ELSE arr[1] \o JoinEmpty(Tail(arr))

\* The values the model passes to the selector methods.
CssValues == {<<>>, <<"a">>, <<"b">>}

order == <<"element", "id", "classes", "attrs", "pseudoClasses", "pseudoElement">>

\* A callback that keeps only the last entry of a list.
FragmentLastOnly(parts, key) ==
    IF key \in {"classes", "attrs", "pseudoClasses"}
    THEN IF parts[key] = <<>> THEN <<>> ELSE Last(parts[key])
    ELSE OrEmpty(parts[key])

\* The callback of the reduce in stringify, for one key of order.
Fragment(parts, key) ==
    IF key \in {"classes", "attrs", "pseudoClasses"}
    THEN JoinEmpty(parts[key])
    ELSE OrEmpty(parts[key])

\* A plausible slip: the attributes rendered before the classes.
stringifyAttrsFirst(parts) ==
    Fragment(parts, "element") \o Fragment(parts, "id") \o Fragment(parts, "attrs")
    \o Fragment(parts, "classes") \o Fragment(parts, "pseudoClasses")
    \o Fragment(parts, "pseudoElement")

RECURSIVE StringifyFrom(_, _)
StringifyFrom(parts, k) ==
    IF k > Len(order) THEN <<>>
    ELSE Fragment(parts, order[k]) \o StringifyFrom(parts, k + 1)

stringify(parts) == StringifyFrom(parts, 1)

\* new CssSelector(): the object every method of cssSelectorBuilder starts
\* its chain on.  calls is the history of the calls that returned, threwOn
\* the call that threw (the chain ends there), text what the last
\* stringify() returned.
InitCssSelector ==
    /\ cssSelector =
         [pc |-> "chain",
          parts |-> [element |-> JsNull, id |-> JsNull, classes |-> <<>>,
                     attrs |-> <<>>, pseudoClasses |-> <<>>, pseudoElement |-> JsNull],
          calls |-> <<>>,
          threwOn |-> JsNull,
          text |-> JsNull]
    /\ AloneCssSelector

CanCall == cssSelector.pc = "chain" /\ Len(cssSelector.calls) < MaxCalls

Returned(kind, value, parts) ==
    cssSelector' = [cssSelector EXCEPT
                      !.parts = parts,
                      !.calls = Append(cssSelector.calls, [kind |-> kind, value |-> value])]

Threw(kind, value) ==
    cssSelector' = [cssSelector EXCEPT
                      !.pc = "threw",
                      !.threwOn = [t |-> "call", kind |-> kind, value |-> value]]

CssElement ==
    /\ CanCall
    /\ \E value \in CssValues :
         IF Truthy(cssSelector.parts.element)
         THEN Threw("element", value)
         ELSE Returned("element", value,
                       [cssSelector.parts EXCEPT !.element = JsString(value)])
    /\ OnlyCssSelector

CssId ==
    /\ CanCall
    /\ \E value \in CssValues :
         IF Truthy(cssSelector.parts.id)
         THEN Threw("id", value)
         ELSE Returned("id", value,
                       [cssSelector.parts EXCEPT !.id = JsString(<<"#">> \o value)])
    /\ OnlyCssSelector

CssClass ==
    /\ CanCall
    /\ \E value \in CssValues :
         Returned("class", value,
                  [cssSelector.parts EXCEPT
                     !.classes = Append(cssSelector.parts.classes, <<".">> \o value)])
    /\ OnlyCssSelector

CssAttr ==
    /\ CanCall
    /\ \E value \in CssValues :
         Returned("attr", value,
                  [cssSelector.parts EXCEPT
                     !.attrs = Append(cssSelector.parts.attrs, <<"[">> \o value \o <<"]">>)])
    /\ OnlyCssSelector

CssPseudoClass ==
    /\ CanCall
    /\ \E value \in CssValues :
         Returned("pseudoClass", value,
                  [cssSelector.parts EXCEPT
                     !.pseudoClasses = Append(cssSelector.parts.pseudoClasses, <<":">> \o value)])
    /\ OnlyCssSelector

CssPseudoElement ==
    /\ CanCall
    /\ \E value \in CssValues :
         IF Truthy(cssSelector.parts.pseudoElement)
         THEN Threw("pseudoElement", value)
         ELSE Returned("pseudoElement", value,
                       [cssSelector.parts EXCEPT
                          !.pseudoElement = JsString(<<":", ":">> \o value)])
    /\ OnlyCssSelector

CssStringify ==
    /\ CanCall
    /\ cssSelector' = [cssSelector EXCEPT
                         !.calls = Append(cssSelector.calls,
                                          [kind |-> "stringify", value |-> <<>>]),
                         !.text = JsString(stringify(cssSelector.parts))]
    /\ OnlyCssSelector

NextCssSelector ==
    \/ CssElement \/ CssId \/ CssClass \/ CssAttr
    \/ CssPseudoClass \/ CssPseudoElement \/ CssStringify

SpecCssSelector == InitCssSelector /\ [][NextCssSelector]_vars

\* The number of calls of one kind among the calls that returned.
RECURSIVE CountKind(_, _)
CountKind(calls, kind) ==
    IF calls = <<>> THEN 0
    ELSE (IF calls[1].kind = kind THEN 1 ELSE 0) + CountKind(Tail(calls), kind)

\* C3: on one chain a second call of element, of id or of pseudoElement
\* throws, whatever value the first call was given (so no chain holds two
\* calls of one of these kinds that returned), and class, attr and
\* pseudoClass never throw.
SetOnceOrThrow ==
    /\ \A kind \in {"element", "id", "pseudoElement"} :
         CountKind(cssSelector.calls, kind) <= 1
    /\ cssSelector.pc = "threw" =>
         cssSelector.threwOn.kind \in {"element", "id", "pseudoElement"}

\* The fragments of the calls of one kind, in call order, each between its
\* prefix and suffix.
RECURSIVE FragmentsOf(_, _, _, _)
FragmentsOf(calls, kind, prefix, suffix) ==
    IF calls = <<>> THEN <<>>
    ELSE (IF calls[1].kind = kind THEN prefix \o calls[1].value \o suffix ELSE <<>>)
         \o FragmentsOf(Tail(calls), kind, prefix, suffix)

CssPrecedence(calls) ==
    FragmentsOf(calls, "element", <<>>, <<>>)
    \o FragmentsOf(calls, "id", <<"#">>, <<>>)
    \o FragmentsOf(calls, "class", <<".">>, <<>>)
    \o FragmentsOf(calls, "attr", <<"[">>, <<"]">>)
    \o FragmentsOf(calls, "pseudoClass", <<":">>, <<>>)
    \o FragmentsOf(calls, "pseudoElement", <<":", ":">>, <<>>)

JustStringified ==
    /\ cssSelector.pc = "chain"
    /\ cssSelector.calls # <<>>
    /\ Last(cssSelector.calls).kind = "stringify"

\* C4: stringify returns the fragments of the calls that returned in the
\* order element, '#'id, '.'classes, '['attributes']', ':'pseudo-classes,
\* '::'pseudo-element, whatever the order of the calls of different kinds,
\* entries of one kind in call order.
StringifyInCssOrder ==
    JustStringified =>
        cssSelector.text = JsString(CssPrecedence(cssSelector.calls))

\* A chain that called attr before class, and class twice with different
\* values, and was then stringified.
StringifyInCssOrderWitness ==
    /\ JustStringified
    /\ \E i, j, k \in 1..Len(cssSelector.calls) :
         /\ i < j /\ j < k
         /\ cssSelector.calls[i].kind = "attr"
         /\ cssSelector.calls[j].kind = "class"
         /\ cssSelector.calls[k].kind = "class"
         /\ cssSelector.calls[j].value # cssSelector.calls[k].value
         /\ cssSelector.calls[i].value # <<>>

StringifyReturned ==
    /\ Len(cssSelector'.calls) = Len(cssSelector.calls) + 1
    /\ Last(cssSelector'.calls).kind = "stringify"

BuilderReturned ==
    /\ Len(cssSelector'.calls) = Len(cssSelector.calls) + 1
    /\ Last(cssSelector'.calls).kind # "stringify"

MaxChars == 4

PermChars == {"a", "b", "c", "d"}

\* The strings of pairwise distinct characters of length 0..MaxChars.
DistinctStrings ==
    {str \in SeqUpTo(PermChars, MaxChars) :
        \A i, j \in 1..Len(str) : i # j => str[i] # str[j]}

\* What the body of permute yields, read as the body of a generator: the
\* prefix when nothing remains, then, for every i, what permute yields for
\* the string without its i-th character and the prefix extended by it.
RECURSIVE permute(_, _)
RECURSIVE PermuteLoop(_, _, _)
permute(str, prefix) ==
    (IF Len(str) = 0 THEN <<prefix>> ELSE <<>>) \o PermuteLoop(str, prefix, 0)

PermuteLoop(str, prefix, i) ==
    IF i < Len(str)
    THEN LET curr == str[i + 1]
             remaining == SubSeq(str, 1, i) \o SubSeq(str, i + 2, Len(str))
         IN  permute(remaining, prefix \o <<curr>>) \o PermuteLoop(str, prefix, i + 1)
    ELSE <<>>

\* permute is declared `function permute`, not `function* permute`; its
\* body uses yield and yield*, and the file is in strict mode, where yield
\* is a reserved word outside a generator: the file does not parse.
PermuteIsGenerator == FALSE

\* What iterating getPermutations(chars) gives.
getPermutations(chars) ==
    IF PermuteIsGenerator
    THEN [threw |-> "", yielded |-> permute(chars, <<>>)]
    ELSE [threw |-> "SyntaxError", yielded |-> <<>>]

InitPermutations ==
    /\ permutations \in
         {[pc |-> "call", chars |-> c, threw |-> "", yielded |-> <<>>] :
            c \in DistinctStrings}
    /\ AlonePermutations

\* Array.from(getPermutations(chars))
GetPermutations ==
    /\ permutations.pc = "call"
    /\ LET r == getPermutations(permutations.chars)
       IN  permutations' = [permutations EXCEPT !.pc = "done",
                                                !.threw = r.threw,
                                                !.yielded = r.yielded]
    /\ OnlyPermutations

NextPermutations == GetPermutations

SpecPermutations == InitPermutations /\ [][NextPermutations]_vars

RECURSIVE Factorial(_)
Factorial(n) == IF n = 0 THEN 1 ELSE n * Factorial(n - 1)

\* q holds every character of str exactly once (str has no repeats).
IsRearrangement(q, str) ==
    /\ Len(q) = Len(str)
    /\ \A i \in 1..Len(str) : \E j \in 1..Len(q) : q[j] = str[i]

\* C5: for a string of n pairwise distinct characters getPermutations
\* yields exactly n! strings, pairwise distinct, each holding every input
\* character exactly once.
AllPermutationsOnce ==
    permutations.pc = "done" =>
        /\ permutations.threw = ""
        /\ Len(permutations.yielded) = Factorial(Len(permutations.chars))
        /\ \A i, j \in 1..Len(permutations.yielded) :
              i # j => permutations.yielded[i] # permutations.yielded[j]
        /\ \A i \in 1..Len(permutations.yielded) :
              IsRearrangement(permutations.yielded[i], permutations.chars)

\* ------------------------------------------------------------------------
\* expandBraces
\* ------------------------------------------------------------------------

\* Longest string the model expands.
MaxBraceLen == 6

BraceChars == {"a", "b", "{", "}", ","}

\* str[pos] || '' : the character at 0-based pos, '' past the end.
CharAt(str, pos) == IF pos < Len(str) THEN <<str[pos + 1]>> ELSE <<>>

\* arr.map(prefix => prefix + suffix)
RECURSIVE MapAppend(_, _)
MapAppend(arr, suffix) ==
    IF arr = <<>> THEN <<>>
    ELSE <<arr[1] \o suffix>> \o MapAppend(Tail(arr), suffix)

\* options.map(opt => prefix + opt)
RECURSIVE MapPrepend(_, _)
MapPrepend(prefix, options) ==
    IF options = <<>> THEN <<>>
    ELSE <<prefix \o options[1]>> \o MapPrepend(prefix, Tail(options))

\* result.flatMap(prefix => options.map(opt => prefix + opt))
RECURSIVE FlatMapOptions(_, _)
FlatMapOptions(result, options) ==
    IF result = <<>> THEN <<>>
    ELSE MapPrepend(result[1], options) \o FlatMapOptions(Tail(result), options)

\* The loop of parseOptions from 0-based pos, with its locals; it returns
\* [options, newPos].
RECURSIVE ParseOptionsLoop(_, _, _, _, _)
ParseOptionsLoop(str, pos, options, current, braceLevel) ==
    IF ~(pos < Len(str))
    THEN [options |-> MapAppend(options, current), newPos |-> pos]
    ELSE LET ch == str[pos + 1]
         IN  IF ch = "{"
             THEN ParseOptionsLoop(str, pos + 1, options, current \o <<ch>>, braceLevel + 1)
             ELSE IF ch = "}"
             THEN IF braceLevel > 0
                  THEN ParseOptionsLoop(str, pos + 1, options, current \o <<ch>>,
                                        braceLevel - 1)
                  ELSE [options |-> MapAppend(options, current), newPos |-> pos + 1]
             ELSE IF ch = "," /\ braceLevel = 0
             THEN ParseOptionsLoop(str, pos + 1, MapAppend(options, current), <<>>,
                                   braceLevel)
             ELSE IF ch = "\\"
             THEN ParseOptionsLoop(str, pos + 2, options,
                                   current \o CharAt(str, pos + 1), braceLevel)
             ELSE ParseOptionsLoop(str, pos + 1, options, current \o <<ch>>, braceLevel)

parseOptions(str, pos) == ParseOptionsLoop(str, pos, << <<>> >>, <<>>, 0)

\* The loop of parse from 0-based pos, with its local result.
RECURSIVE ParseLoop(_, _, _)
ParseLoop(str, pos, result) ==
    IF ~(pos < Len(str))
    THEN result
    ELSE LET ch == str[pos + 1]
         IN  IF ch = "{"
             THEN LET r == parseOptions(str, pos + 1)
                  IN  ParseLoop(str, r.newPos, FlatMapOptions(result, r.options))
             ELSE IF ch = "\\"
             THEN ParseLoop(str, pos + 2, MapAppend(result, CharAt(str, pos + 1)))
             ELSE ParseLoop(str, pos + 1, MapAppend(result, <<ch>>))

parse(str, pos) == ParseLoop(str, pos, << <<>> >>)

\* What iterating expandBraces(str) yields.
expandBraces(str) == parse(str, 0)

\* The number of "{" minus the number of "}" in str.
RECURSIVE Depth(_)
Depth(str) ==
    IF str = <<>> THEN 0
    ELSE Depth(Front(str))
         + (IF Last(str) = "{" THEN 1 ELSE IF Last(str) = "}" THEN -1 ELSE 0)

Balanced(str) ==
    /\ Depth(str) = 0
    /\ \A k \in 1..Len(str) : Depth(SubSeq(str, 1, k)) >= 0

InitBraces ==
    /\ braces \in
         {[pc |-> "call", str |-> x, yielded |-> <<>>] :
            x \in {y \in SeqUpTo(BraceChars, MaxBraceLen) : Balanced(y)}}
    /\ AloneBraces

\* Array.from(expandBraces(str))
ExpandBraces ==
    /\ braces.pc = "call"
    /\ braces' = [braces EXCEPT !.pc = "done", !.yielded = expandBraces(braces.str)]
    /\ OnlyBraces

NextBraces == ExpandBraces

SpecBraces == InitBraces /\ [][NextBraces]_vars

\* The comma-separated alternatives of the inside of a brace group: inner
\* cut at its commas of depth 0.
RECURSIVE Alternatives(_, _)
Alternatives(inner, from) ==
    LET cuts == {c \in from..Len(inner) :
                   inner[c] = "," /\ Depth(SubSeq(inner, from, c - 1)) = 0}
    IN  IF cuts = {}
        THEN {SubSeq(inner, from, Len(inner))}
        ELSE LET c == CHOOSE x \in cuts : \A y \in cuts : x <= y
             IN  {SubSeq(inner, from, c - 1)} \cup Alternatives(inner, c + 1)

\* The expansions of a balanced string by the grammar: with p the first
\* "{" and q the "}" that closes it, the text before p, then an expansion
\* of one alternative of the group, then an expansion of the text after q.
RECURSIVE Expansions(_)
Expansions(str) ==
    LET opens == {p \in 1..Len(str) : str[p] = "{"}
    IN  IF opens = {}
        THEN {str}
        ELSE LET p == CHOOSE x \in opens : \A y \in opens : x <= y
                 q == CHOOSE x \in (p + 1)..Len(str) :
                        /\ Depth(SubSeq(str, p, x)) = 0
                        /\ \A y \in p..(x - 1) : Depth(SubSeq(str, p, y)) > 0
                 alts == Alternatives(SubSeq(str, p + 1, q - 1), 1)
                 mids == UNION {Expansions(alt) : alt \in alts}
                 rests == Expansions(SubSeq(str, q + 1, Len(str)))
             IN  {SubSeq(str, 1, p - 1) \o mid \o rest : mid \in mids, rest \in rests}

\* C6: for a string with balanced braces expandBraces yields exactly the
\* strings got by choosing one alternative for each brace group,
\* recursively for nested groups, each of them once and no other string.
ExpandsByGrammar ==
    braces.pc = "done" =>
        /\ {braces.yielded[k] : k \in 1..Len(braces.yielded)} = Expansions(braces.str)
        /\ \A i, j \in 1..Len(braces.yielded) :
              i # j => braces.yielded[i] # braces.yielded[j]

\* ------------------------------------------------------------------------
\* getPokerHandRank
\* ------------------------------------------------------------------------

PokerRank ==
    [StraightFlush |-> 8, FourOfKind |-> 7, FullHouse |-> 6, Flush |-> 5,
     Straight |-> 4, ThreeOfKind |-> 3, TwoPairs |-> 2, OnePair |-> 1, HighCard |-> 0]

\* The ranks of a deck, lowest first, as the strings the cards carry.
Ranks ==
    << <<"2">>, <<"3">>, <<"4">>, <<"5">>, <<"6">>, <<"7">>, <<"8">>, <<"9">>,
       <<"1", "0">>, <<"J">>, <<"Q">>, <<"K">>, <<"A">> >>

\* The four suits (s, h, d, c stand for the suit characters of the source).
Suits == <<"s", "h", "d", "c">>

\* The card of the k-th rank (0-based) and the n-th suit (0-based).
Card(k, n) == Ranks[k + 1] \o <<Suits[n + 1]>>

\* The choices of 5 ranks, lowest first, no rank more often than there are
\* suits.
RankChoices ==
    UNION {UNION {UNION {UNION {
        {<<a, b, c, d, e>> : e \in {x \in d..(Len(Ranks) - 1) : x # a}}
        : d \in c..(Len(Ranks) - 1)}
        : c \in b..(Len(Ranks) - 1)}
        : b \in a..(Len(Ranks) - 1)}
        : a \in 0..(Len(Ranks) - 1)}

\* The hands of 5 distinct cards up to a renaming of the suits that keeps
\* "all of one suit" (the only thing getPokerHandRank asks of the suits):
\* for every choice of ranks the hand whose k-th card has the k-th suit
\* (the fifth the first suit again), which is no flush and has no card
\* twice, and, when the ranks are all different, the hand of one suit.
Hands ==
    {[k \in 1..5 |-> Card(r[k], (k - 1) % Len(Suits))] : r \in RankChoices}
    \cup {[k \in 1..5 |-> Card(r[k], 0)] :
            r \in {x \in RankChoices : \A i, j \in 1..5 : i # j => x[i] # x[j]}}

\* String.prototype.indexOf(needle): the 0-based position of the first
\* occurrence of needle as a substring, -1 when there is none.
IndexOfString(hay, needle) ==
    LET at == {k \in 0..(Len(hay) - Len(needle)) :
                 SubSeq(hay, k + 1, k + Len(needle)) = needle}
    IN  IF at = {} THEN -1 ELSE CHOOSE k \in at : \A j \in at : k <= j

Digits == <<"0", "1", "2", "3", "4", "5", "6", "7", "8", "9">>

\* parseInt(str): the number written by the longest prefix of decimal
\* digits, NaN when str does not start with a digit.
RECURSIVE ParseDigits(_, _)
ParseDigits(str, acc) ==
    IF str # <<>> /\ IndexOf(Digits, str[1]) # -1
    THEN ParseDigits(Tail(str), acc * 10 + IndexOf(Digits, str[1]))
    ELSE acc

ParseInt(str) ==
    IF str # <<>> /\ IndexOf(Digits, str[1]) # -1
    THEN [nan |-> FALSE, n |-> ParseDigits(str, 0)]
    ELSE [nan |-> TRUE]

\* card.slice(0, -1) and card.slice(-1)
RankOf(card) == Front(card)
SuitOf(card) == Last(card)

\* '23456789TJQKA'.indexOf(r) || (r === 'A' ? 13 : parseInt(r) - 1)
\* (0 is falsy, -1 is truthy; of the deck's ranks only '2' reaches parseInt).
ValueOfRank(r) ==
    LET k == IndexOfString(<<"2", "3", "4", "5", "6", "7", "8", "9", "T", "J", "Q", "K", "A">>, r)
    IN  IF k # 0 THEN k
        ELSE IF r = <<"A">> THEN 13 ELSE ParseInt(r).n - 1

\* arr.sort((a, b) => a - b)
RECURSIVE Insert(_, _)
Insert(sorted, v) ==
    IF sorted = <<>> THEN <<v>>
    ELSE IF v < sorted[1] THEN <<v>> \o sorted
    ELSE <<sorted[1]>> \o Insert(Tail(sorted), v)

RECURSIVE SortAscending(_)
SortAscending(arr) ==
    IF arr = <<>> THEN <<>> ELSE Insert(SortAscending(Front(arr)), Last(arr))

\* Object.values(rankCount): how often each rank of the hand occurs, one
\* entry per rank, in order of first occurrence.
RankCounts(ranks) ==
    LET firsts == {k \in 1..Len(ranks) : \A j \in 1..(k - 1) : ranks[j] # ranks[k]}
        count(k) == Cardinality({j \in 1..Len(ranks) : ranks[j] = ranks[k]})
        RECURSIVE collect(_)
        collect(k) ==
            IF k > Len(ranks) THEN <<>>
            ELSE (IF k \in firsts THEN <<count(k)>> ELSE <<>>) \o collect(k + 1)
    IN  collect(1)

getPokerHandRank(hand) ==
    LET ranks == [k \in 1..Len(hand) |-> RankOf(hand[k])]
        suits == [k \in 1..Len(hand) |-> SuitOf(hand[k])]
        values == SortAscending([k \in 1..Len(ranks) |-> ValueOfRank(ranks[k])])
        isFlush == \A k \in 1..Len(suits) : suits[k] = suits[1]
        isStraight ==
            \/ \A k \in 1..Len(values) : k = 1 \/ values[k] = values[k - 1] + 1
            \/ /\ values[1] = 0
               /\ \A k \in 2..Len(values) : values[k] = (k - 2) + 1
               /\ values[5] = 12
        counts == RankCounts(ranks)
        maxCount == CHOOSE m \in {counts[k] : k \in 1..Len(counts)} :
                       \A k \in 1..Len(counts) : counts[k] <= m
        pairs == Cardinality({k \in 1..Len(counts) : counts[k] = 2})
    IN  IF isFlush /\ isStraight THEN PokerRank.StraightFlush
        ELSE IF maxCount = 4 THEN PokerRank.FourOfKind
        ELSE IF maxCount = 3 /\ pairs >= 1 THEN PokerRank.FullHouse
        ELSE IF isFlush THEN PokerRank.Flush
        ELSE IF isStraight THEN PokerRank.Straight
        ELSE IF maxCount = 3 THEN PokerRank.ThreeOfKind
        ELSE IF pairs = 2 THEN PokerRank.TwoPairs
        ELSE IF maxCount = 2 THEN PokerRank.OnePair
        ELSE PokerRank.HighCard

InitPoker ==
    /\ poker \in {[pc |-> "call", hand |-> h, rank |-> -1] : h \in Hands}
    /\ AlonePoker

\* var rank = getPokerHandRank(hand)
GetPokerHandRank ==
    /\ poker.pc = "call"
    /\ poker' = [poker EXCEPT !.pc = "done", !.rank = getPokerHandRank(poker.hand)]
    /\ OnlyPoker

NextPoker == GetPokerHandRank

SpecPoker == InitPoker /\ [][NextPoker]_vars

\* The category of a hand by the rules of poker, with the ranks counted
\* 2..14 (ace high) and the ace also low in A-2-3-4-5.
StandardCategory(hand) ==
    LET value(k) == IndexOf(Ranks, RankOf(hand[k])) + 2
        valueSet == {value(k) : k \in 1..5}
        low == CHOOSE v \in valueSet : \A w \in valueSet : v <= w
        isFlush == \A k \in 1..5 : SuitOf(hand[k]) = SuitOf(hand[1])
        isStraight ==
            \/ valueSet = low..(low + 4)
            \/ valueSet = {14, 2, 3, 4, 5}
        ofAKind(v) == Cardinality({k \in 1..5 : value(k) = v})
        most == CHOOSE m \in {ofAKind(v) : v \in valueSet} :
                   \A v \in valueSet : ofAKind(v) <= m
        pairs == Cardinality({v \in valueSet : ofAKind(v) = 2})
    IN  IF isFlush /\ isStraight THEN PokerRank.StraightFlush
        ELSE IF most = 4 THEN PokerRank.FourOfKind
        ELSE IF most = 3 /\ pairs = 1 THEN PokerRank.FullHouse
        ELSE IF isFlush THEN PokerRank.Flush
        ELSE IF isStraight THEN PokerRank.Straight
        ELSE IF most = 3 THEN PokerRank.ThreeOfKind
        ELSE IF pairs = 2 THEN PokerRank.TwoPairs
        ELSE IF most = 2 THEN PokerRank.OnePair
        ELSE PokerRank.HighCard

\* C7: for a hand of 5 distinct cards getPokerHandRank returns the hand's
\* standard poker category, five consecutive ranks being a straight, the
\* ace-low A-2-3-4-5 and the straights holding a 2, a 3 or a 10 included.
RankIsStandardCategory ==
    poker.pc = "done" => poker.rank = StandardCategory(poker.hand)

\* ------------------------------------------------------------------------
\* wrapText
\* ------------------------------------------------------------------------

\* Longest text and widest column limit the model draws.
MaxTextLen == 6
MaxColumns == 4

WrapChars == {"a", "b", " "}

\* text.split(' '): the pieces of text between its spaces, empty pieces
\* included.
RECURSIVE SplitLoop(_, _, _)
SplitLoop(text, k, piece) ==
    IF k > Len(text) THEN <<piece>>
    ELSE IF text[k] = " " THEN <<piece>> \o SplitLoop(text, k + 1, <<>>)
    ELSE SplitLoop(text, k + 1, piece \o <<text[k]>>)

SplitOnSpace(text) == SplitLoop(text, 1, <<>>)

\* The texts of words separated by single spaces: no space first, last or
\* after a space.
Texts ==
    {t \in SeqUpTo(WrapChars, MaxTextLen) :
        /\ t # <<>>
        /\ t[1] # " "
        /\ t[Len(t)] # " "
        /\ \A k \in 1..(Len(t) - 1) : ~(t[k] = " " /\ t[k + 1] = " ")}

InitWrap ==
    /\ wrap \in
         {[pc |-> "loop", text |-> t, columns |-> c, words |-> SplitOnSpace(t),
           next |-> 1, currentLine |-> <<>>, yielded |-> <<>>] :
            t \in Texts, c \in 1..MaxColumns}
    /\ AloneWrap

\* currentLine.length + word.length + (currentLine ? 1 : 0) <= columns
Fits(currentLine, word, columns) ==
    Len(currentLine) + Len(word) + (IF currentLine # <<>> THEN 1 ELSE 0) <= columns

\* One iteration of the loop for a word that fits the current line.
WrapAppend ==
    /\ wrap.pc = "loop"
    /\ wrap.next <= Len(wrap.words)
    /\ LET word == wrap.words[wrap.next]
       IN  /\ Fits(wrap.currentLine, word, wrap.columns)
           /\ wrap' = [wrap EXCEPT
                         !.currentLine =
                            wrap.currentLine
                            \o (IF wrap.currentLine # <<>> THEN <<" ">> ELSE <<>>) \o word,
                         !.next = wrap.next + 1]
    /\ OnlyWrap

\* One iteration of the loop for a word that does not fit: the current
\* line, if any, is yielded, and the word starts the next line if it is no
\* longer than the limit.
WrapBreak ==
    /\ wrap.pc = "loop"
    /\ wrap.next <= Len(wrap.words)
    /\ LET word == wrap.words[wrap.next]
       IN  /\ ~Fits(wrap.currentLine, word, wrap.columns)
           /\ wrap' = [wrap EXCEPT
                         !.yielded = IF wrap.currentLine # <<>>
                                     THEN Append(wrap.yielded, wrap.currentLine)
                                     ELSE wrap.yielded,
                         !.currentLine = IF Len(word) <= wrap.columns THEN word ELSE <<>>,
                         !.next = wrap.next + 1]
    /\ OnlyWrap

\* After the loop: if (currentLine) yield currentLine
WrapFlush ==
    /\ wrap.pc = "loop"
    /\ wrap.next > Len(wrap.words)
    /\ wrap' = [wrap EXCEPT
                  !.pc = "done",
                  !.yielded = IF wrap.currentLine # <<>>
                              THEN Append(wrap.yielded, wrap.currentLine)
                              ELSE wrap.yielded]
    /\ OnlyWrap

NextWrap == WrapAppend \/ WrapBreak \/ WrapFlush

SpecWrap == InitWrap /\ [][NextWrap]_vars

\* The lines joined by single spaces.
RECURSIVE JoinLines(_)
JoinLines(lines) ==
    IF lines = <<>> THEN <<>>
    ELSE IF Len(lines) = 1 THEN lines[1]
    ELSE lines[1] \o <<" ">> \o JoinLines(Tail(lines))

\* C8: every word of the text is in exactly one yielded line, in the
\* original order (the lines joined by spaces are the text); a line holds
\* as many words as fit within the limit (the first word of the next line
\* would not have fit); and a line exceeds the limit only when it is a
\* single word longer than the limit, which is yielded as a line of its own.
WrapsGreedily ==
    wrap.pc = "done" =>
        /\ JoinLines(wrap.yielded) = wrap.text
        /\ \A k \in 1..Len(wrap.yielded) :
              \/ Len(wrap.yielded[k]) <= wrap.columns
              \/ Len(SplitOnSpace(wrap.yielded[k])) = 1
        /\ \A k \in 1..(Len(wrap.yielded) - 1) :
              Len(wrap.yielded[k]) + 1 + Len(SplitOnSpace(wrap.yielded[k + 1])[1])
                  > wrap.columns

\* ------------------------------------------------------------------------
\* parseBankAccount
\* ------------------------------------------------------------------------

digitPatterns ==
    << <<" ", "_", " ", "|", " ", "|", "|", "_", "|">>,
       <<" ", " ", " ", "|", " ", " ", "|", " ">>,
       <<" ", "_", " ", " ", "_", "|", "|", "_", " ">>,
       <<" ", "_", " ", " ", "_", "|", " ", "_", "|">>,
       <<" ", " ", " ", "|", "_", "|", " ", " ", "|">>,
       <<" ", "_", " ", "|", "_", "|", " ", "_", "|">>,
       <<" ", "_", " ", "|", "_", "|", "_", "|", " ">>,
       <<" ", "_", " ", " ", " ", "|", " ", " ", "|">>,
       <<" ", "_", " ", "|", "_", "|", "|", "_", "|">>,
       <<" ", "_", " ", "|", "_", "|", " ", "_", "|">> >>

\* The three rows of the glyph of each digit 0..9, as the examples of the
\* doc comment draw them.
Glyphs ==
    << << <<" ", "_", " ">>, <<"|", " ", "|">>, <<"|", "_", "|">> >>,
       << <<" ", " ", " ">>, <<" ", " ", "|">>, <<" ", " ", "|">> >>,
       << <<" ", "_", " ">>, <<" ", "_", "|">>, <<"|", "_", " ">> >>,
       << <<" ", "_", " ">>, <<" ", "_", "|">>, <<" ", "_", "|">> >>,
       << <<" ", " ", " ">>, <<"|", "_", "|">>, <<" ", " ", "|">> >>,
       << <<" ", "_", " ">>, <<"|", "_", " ">>, <<" ", "_", "|">> >>,
       << <<" ", "_", " ">>, <<"|", "_", " ">>, <<"|", "_", "|">> >>,
       << <<" ", "_", " ">>, <<" ", " ", "|">>, <<" ", " ", "|">> >>,
       << <<" ", "_", " ">>, <<"|", "_", "|">>, <<"|", "_", "|">> >>,
       << <<" ", "_", " ">>, <<"|", "_", "|">>, <<" ", "_", "|">> >> >>

\* The k-th row (1..3) of the scan of a sequence of digits.
RECURSIVE Row(_, _)
Row(digits, k) ==
    IF digits = <<>> THEN <<>>
    ELSE Glyphs[digits[1] + 1][k] \o Row(Tail(digits), k)

\* The scan of an account number: three rows, each followed by a newline.
Scan(digits) ==
    Row(digits, 1) \o <<"\n">> \o Row(digits, 2) \o <<"\n">> \o Row(digits, 3) \o <<"\n">>

IsWhiteSpace(ch) == ch \in {" ", "\n"}

\* String.prototype.trim()
RECURSIVE TrimStart(_)
TrimStart(str) ==
    IF str # <<>> /\ IsWhiteSpace(str[1]) THEN TrimStart(Tail(str)) ELSE str

RECURSIVE TrimEnd(_)
TrimEnd(str) ==
    IF str # <<>> /\ IsWhiteSpace(Last(str)) THEN TrimEnd(Front(str)) ELSE str

Trim(str) == TrimEnd(TrimStart(str))

\* str.split('\n')
RECURSIVE SplitLinesLoop(_, _, _)
SplitLinesLoop(str, k, piece) ==
    IF k > Len(str) THEN <<piece>>
    ELSE IF str[k] = "\n" THEN <<piece>> \o SplitLinesLoop(str, k + 1, <<>>)
    ELSE SplitLinesLoop(str, k + 1, piece \o <<str[k]>>)

SplitLines(str) == SplitLinesLoop(str, 1, <<>>)

\* str.slice(from, to) for 0 <= from <= to: the characters of the 0-based
\* positions from..to-1 that exist.
Slice(str, from, to) ==
    SubSeq(str, from + 1, IF to < Len(str) THEN to ELSE Len(str))

\* lines.map(line => line.slice(i * 3, i * 3 + 3)).join('')
RECURSIVE GlyphAt(_, _)
GlyphAt(lines, i) ==
    IF lines = <<>> THEN <<>>
    ELSE Slice(lines[1], i * 3, i * 3 + 3) \o GlyphAt(Tail(lines), i)

AccountLines(bankAccount) == SplitLines(Trim(bankAccount))

\* The loop over the 9 glyphs from i on: the characters added to result.
RECURSIVE ResultFrom(_, _)
ResultFrom(lines, i) ==
    IF ~(i < 9) THEN <<>>
    ELSE LET digitIndex == IndexOf(digitPatterns, GlyphAt(lines, i))
         IN  <<IF digitIndex # -1 THEN Digits[digitIndex + 1] ELSE "?">>
             \o ResultFrom(lines, i + 1)

parseBankAccount(bankAccount) ==
    ParseInt(ResultFrom(AccountLines(bankAccount), 0))

\* The account numbers the model scans: the digits start, start + step,
\* start + 2 step, ... modulo 10 (start 1, step 1 is 123456789).
Accounts ==
    {[k \in 1..9 |-> (start + step * (k - 1)) % 10] : start \in 0..9, step \in 0..9}

InitBank ==
    /\ bank \in
         {[pc |-> "call", digits |-> d, bankAccount |-> Scan(d), result |-> [nan |-> TRUE]] :
            d \in Accounts}
    /\ AloneBank

\* var result = parseBankAccount(bankAccount)
ParseBankAccount ==
    /\ bank.pc = "call"
    /\ bank' = [bank EXCEPT !.pc = "done", !.result = parseBankAccount(bank.bankAccount)]
    /\ OnlyBank

NextBank == ParseBankAccount

SpecBank == InitBank /\ [][NextBank]_vars

\* The integer whose decimal digits are the given digits.
RECURSIVE NumberOf(_)
NumberOf(digits) ==
    IF digits = <<>> THEN 0 ELSE NumberOf(Front(digits)) * 10 + Last(digits)

\* C9: for three lines of 27 characters, each followed by a newline,
\* holding the glyphs of nine digits, parseBankAccount returns the integer
\* whose decimal digits are the glyphs' digits in order, each of the ten
\* glyphs being recognised as its own digit.
ParsesEveryGlyph ==
    bank.pc = "done" => bank.result = [nan |-> FALSE, n |-> NumberOf(bank.digits)]

\* ------------------------------------------------------------------------
\* createCompassPoints
\* ------------------------------------------------------------------------

names ==
    << << <<>>, <<"b">>, <<>>, <<"b">> >>,
       << <<"N">>, <<"N">>, <<"N", "E">>, <<"E">> >>,
       << <<"E">>, <<"N">>, <<"E">>, <<"E">> >>,
       << <<"S">>, <<"S">>, <<"S", "E">>, <<"E">> >>,
       << <<"W">>, <<"S">>, <<"W">>, <<"W">> >> >>

\* 11.25 degrees, in hundredths of a degree (azimuths are kept in
\* hundredths of a degree).
AzimuthStep == 1125

\* The bounds of the two loops (i < 4, j < 4).
CompassSides == 4
CompassSteps == 4

InitCompass ==
    /\ compass = [pc |-> "fill", i |-> 0, j |-> 0, points |-> <<>>, threw |-> ""]
    /\ AloneCompass

\* One iteration of the inner loop: points[idx] = {abbreviation, azimuth}
\* for idx = i * 4 + j, which is the next index of points.
CompassFill ==
    /\ compass.pc = "fill"
    /\ compass.i < CompassSides
    /\ compass.j < CompassSteps
    /\ LET idx == compass.i * 4 + compass.j
           point == [abbreviation |-> names[1][compass.j + 1]
                                      \o names[compass.i + 2][compass.j + 1],
                     azimuth |-> idx * AzimuthStep]
       IN  compass' = [compass EXCEPT
                         !.points = [k \in 1..(IF idx + 1 > Len(compass.points)
                                               THEN idx + 1 ELSE Len(compass.points)) |->
                                       IF k = idx + 1 THEN point ELSE compass.points[k]],
                         !.j = IF compass.j + 1 < CompassSteps THEN compass.j + 1 ELSE 0,
                         !.i = IF compass.j + 1 < CompassSteps THEN compass.i
                               ELSE compass.i + 1]
    /\ OnlyCompass

\* points[idx].abbreviation = abbreviation, for the indices in turn: a
\* TypeError at the first index that points does not have.
RECURSIVE Rename(_, _)
Rename(points, renames) ==
    IF renames = <<>> THEN [threw |-> "", points |-> points]
    ELSE IF renames[1].idx + 1 \in DOMAIN points
    THEN Rename([points EXCEPT ![renames[1].idx + 1].abbreviation =
                                   renames[1].abbreviation],
                Tail(renames))
    ELSE [threw |-> "TypeError", points |-> points]

\* After the loops: the three assignments and the return.
CompassReturn ==
    /\ compass.pc = "fill"
    /\ ~(compass.i < CompassSides)
    /\ LET r == Rename(compass.points,
                       << [idx |-> 4, abbreviation |-> <<"E">>],
                          [idx |-> 12, abbreviation |-> <<"S">>],
                          [idx |-> 20, abbreviation |-> <<"W">>] >>)
       IN  compass' = [compass EXCEPT
                         !.pc = IF r.threw = "" THEN "returned" ELSE "threw",
                         !.threw = r.threw,
                         !.points = r.points]
    /\ OnlyCompass

NextCompass == CompassFill \/ CompassReturn

SpecCompass == InitCompass /\ [][NextCompass]_vars

\* The abbreviations of the 32 points of the compass, clockwise from north.
CompassAbbreviations ==
    << <<"N">>, <<"N", "b", "E">>, <<"N", "N", "E">>, <<"N", "E", "b", "N">>,
       <<"N", "E">>, <<"N", "E", "b", "E">>, <<"E", "N", "E">>, <<"E", "b", "N">>,
       <<"E">>, <<"E", "b", "S">>, <<"E", "S", "E">>, <<"S", "E", "b", "E">>,
       <<"S", "E">>, <<"S", "E", "b", "S">>, <<"S", "S", "E">>, <<"S", "b", "E">>,
       <<"S">>, <<"S", "b", "W">>, <<"S", "S", "W">>, <<"S", "W", "b", "S">>,
       <<"S", "W">>, <<"S", "W", "b", "W">>, <<"W", "S", "W">>, <<"W", "b", "S">>,
       <<"W">>, <<"W", "b", "N">>, <<"W", "N", "W">>, <<"N", "W", "b", "W">>,
       <<"N", "W">>, <<"N", "W", "b", "N">>, <<"N", "N", "W">>, <<"N", "b", "W">> >>

\* C10: createCompassPoints returns, without error, exactly 32 records,
\* the k-th (0..31) with azimuth k * 11.25 and the abbreviation of the k-th
\* point of the 32-point compass.
ReturnsThe32Points ==
    compass.pc \in {"returned", "threw"} =>
        /\ compass.pc = "returned"
        /\ Len(compass.points) = 32
        /\ \A k \in 0..31 :
              /\ compass.points[k + 1].azimuth = k * AzimuthStep
              /\ compass.points[k + 1].abbreviation = CompassAbbreviations[k + 1]

\* ------------------------------------------------------------------------
\* mergeSortedSequences
\* ------------------------------------------------------------------------

\* Longest finite source, largest value of a finite source, largest start
\* and step of an infinite source, and how many values the consumer takes
\* of a merge that does not end.
MaxSourceLen == 2
MaxValue == 2
MaxStart == 1
MaxStep == 2
MaxTake == 4

\* The ascending sources: the finite ones are arrays, the infinite ones
\* generators of start, start + step, start + 2 step, ...
FiniteSources ==
    {[kind |-> "finite", items |-> x] :
        x \in {y \in SeqUpTo(0..MaxValue, MaxSourceLen) :
                 \A k \in 1..(Len(y) - 1) : y[k] <= y[k + 1]}}

InfiniteSources ==
    {[kind |-> "infinite", start |-> a, step |-> d] : a \in 0..MaxStart, d \in 0..MaxStep}

Sources == FiniteSources \cup InfiniteSources

\* The result of the (pos + 1)-th call of next() on the iterator of a
\* source.
IteratorNext(source, pos) ==
    IF source.kind = "infinite"
    THEN [done |-> FALSE, value |-> source.start + source.step * pos]
    ELSE IF pos < Len(source.items)
    THEN [done |-> FALSE, value |-> source.items[pos + 1]]
    ELSE [done |-> TRUE, value |-> "undefined"]

\* A plausible slip: the larger value first.
BranchLargerFirst(val1, val2) ==
    IF val1.done THEN 2
    ELSE IF val2.done THEN 1
    ELSE IF val1.value >= val2.value THEN 1
    ELSE 2

\* The branch of the loop body taken: the source (1 or 2) whose value is
\* yielded and whose iterator is advanced after the yield.
Branch(val1, val2) ==
    IF val1.done THEN 2
    ELSE IF val2.done THEN 1
    ELSE IF val1.value <= val2.value THEN 1
    ELSE 2

\* A plausible slip: both iterators advanced after a yield.
AdvancedBoth(m) ==
    [m EXCEPT !.val1 = IteratorNext(m.source1, m.pos1), !.pos1 = m.pos1 + 1,
              !.val2 = IteratorNext(m.source2, m.pos2), !.pos2 = m.pos2 + 1]

\* val1 = iter1.next() or val2 = iter2.next(), after the yield of the
\* branch the generator is suspended in.
Advanced(m) ==
    IF m.at = 1
    THEN [m EXCEPT !.val1 = IteratorNext(m.source1, m.pos1), !.pos1 = m.pos1 + 1]
    ELSE [m EXCEPT !.val2 = IteratorNext(m.source2, m.pos2), !.pos2 = m.pos2 + 1]

\* From the test of the while loop to the next yield, or to the end.
ToYield(m) ==
    IF ~(~m.val1.done \/ ~m.val2.done)
    THEN [m EXCEPT !.pc = "done"]
    ELSE LET at == Branch(m.val1, m.val2)
         IN  [m EXCEPT !.pc = "suspended",
                       !.at = at,
                       !.yielded = Append(m.yielded,
                                          IF at = 1 THEN m.val1.value ELSE m.val2.value)]

InitMerge ==
    /\ merge \in
         {[pc |-> "start", source1 |-> s1, source2 |-> s2, pos1 |-> 0, pos2 |-> 0,
           val1 |-> [done |-> TRUE, value |-> "undefined"],
           val2 |-> [done |-> TRUE, value |-> "undefined"],
           at |-> 0, yielded |-> <<>>] :
            s1 \in Sources, s2 \in Sources}
    /\ AloneMerge

\* The consumer goes on while it has fewer than MaxTake values; a merge of
\* two finite sources it consumes to the end.
Wanted(m) ==
    \/ Len(m.yielded) < MaxTake
    \/ (m.source1.kind = "finite" /\ m.source2.kind = "finite")

\* The first next() of the consumer: the generator runs from its start, the
\* first next() of both iterators included, to its first yield or its end.
MergeStart ==
    /\ merge.pc = "start"
    /\ Wanted(merge)
    /\ merge' = ToYield([merge EXCEPT
                           !.val1 = IteratorNext(merge.source1, 0), !.pos1 = 1,
                           !.val2 = IteratorNext(merge.source2, 0), !.pos2 = 1])
    /\ OnlyMerge

\* A later next() of the consumer: the generator resumes after its yield,
\* advances one iterator and runs to its next yield or its end.
MergeResume ==
    /\ merge.pc = "suspended"
    /\ Wanted(merge)
    /\ merge' = ToYield(Advanced(merge))
    /\ OnlyMerge

NextMerge == MergeStart \/ MergeResume

SpecMerge == InitMerge /\ [][NextMerge]_vars

\* The consumer's loop is synchronous code: it does not stop while it
\* wants a value.
FairSpecMerge == SpecMerge /\ WF_vars(NextMerge)

\* The first n values of a source (all of them if it has fewer).
RECURSIVE FirstOf(_, _)
FirstOf(source, n) ==
    IF n = 0 \/ IteratorNext(source, n - 1).done
    THEN (IF n = 0 THEN <<>> ELSE FirstOf(source, n - 1))
    ELSE Append(FirstOf(source, n - 1), IteratorNext(source, n - 1).value)

\* The k smallest values of the two sources together, in ascending order:
\* they are among the first k of each, the sources being ascending.
Smallest(source1, source2, k) ==
    LET all == SortAscending(FirstOf(source1, k) \o FirstOf(source2, k))
    IN  SubSeq(all, 1, IF k < Len(all) THEN k ELSE Len(all))

\* C11: for every k the first k values yielded are in ascending order and
\* are the k smallest values of the two sources together, as a multiset;
\* when both sources are finite the finished output holds every input value
\* as often as the inputs do.
MergeYieldsSmallest ==
    /\ \A k \in 1..(Len(merge.yielded) - 1) : merge.yielded[k] <= merge.yielded[k + 1]
    /\ merge.pc # "idle" =>
         merge.yielded = Smallest(merge.source1, merge.source2, Len(merge.yielded))
    /\ merge.pc = "done" =>
         Len(merge.yielded) = Len(merge.source1.items) + Len(merge.source2.items)

\* A finite source merged with an infinite one, three values taken, one of
\* the finite source after one of the infinite source.
MergeYieldsSmallestWitness ==
    /\ merge.pc = "suspended"
    /\ merge.source1.kind = "finite"
    /\ merge.source2.kind = "infinite"
    /\ Len(merge.yielded) >= 3
    /\ merge.pos1 >= 2
    /\ merge.pos2 >= 2
    /\ merge.source1.items[1] > merge.source2.start

BothInfinite == merge.pc # "idle" /\ merge.source1.kind = "infinite"
                /\ merge.source2.kind = "infinite"

\* C12: taking the first k values of the merge of two infinite sources
\* terminates (the consumer gets its MaxTake values), the merge never ends
\* or drains a source, and when it yields its k-th value it has called
\* next() on the sources at most k + 1 times in all.
MergeIsLazy ==
    /\ [](BothInfinite =>
            /\ merge.pc # "done"
            /\ merge.pc = "suspended" =>
                 merge.pos1 + merge.pos2 <= Len(merge.yielded) + 1)
    /\ <>(BothInfinite => Len(merge.yielded) = MaxTake)

\* Two infinite sources, MaxTake values taken, some of each source.
MergeIsLazyWitness ==
    /\ BothInfinite
    /\ merge.pc = "suspended"
    /\ Len(merge.yielded) = MaxTake
    /\ merge.pos1 >= 2
    /\ merge.pos2 >= 2

\* ------------------------------------------------------------------------
\* findStringInSnakingPuzzle
\* ------------------------------------------------------------------------

\* Most rows and columns of a puzzle and longest string searched.
MaxRows == 2
MaxCols == 3
MaxSearchLen == 4

PuzzleChars == {"a", "b"}

\* The rectangular puzzles: rows of equal length.
Puzzles ==
    UNION {[1..r -> [1..c -> PuzzleChars]] : r \in 1..MaxRows, c \in 1..MaxCols}

\* The file of findStringInSnakingPuzzle is the file of getPermutations:
\* it parses, and its functions exist, only if permute is a generator.
Part000Parses == PermuteIsGenerator

directions == << <<0, 1>>, <<1, 0>>, <<0, -1>>, <<-1, 0>> >>

\* visited[row][col] = value
SetVisited(visited, row, col, value) ==
    [i \in 1..Len(visited) |->
        [j \in 1..Len(visited[i]) |->
            IF i = row + 1 /\ j = col + 1 THEN value ELSE visited[i][j]]]

\* dfs(row, col, index) with 0-based row and col, and the loop over the
\* directions from the k-th on; both give [found, visited], visited being
\* the array as the call leaves it.
RECURSIVE dfs(_, _, _, _, _, _)
RECURSIVE DfsDirections(_, _, _, _, _, _, _)
dfs(puzzle, searchStr, visited, row, col, index) ==
    IF index = Len(searchStr) THEN [found |-> TRUE, visited |-> visited]
    ELSE IF row < 0 \/ row >= Len(puzzle) \/ col < 0 \/ col >= Len(puzzle[1])
    THEN [found |-> FALSE, visited |-> visited]
    ELSE IF visited[row + 1][col + 1] THEN [found |-> FALSE, visited |-> visited]
    ELSE IF puzzle[row + 1][col + 1] # searchStr[index + 1]
    THEN [found |-> FALSE, visited |-> visited]
    ELSE DfsDirections(puzzle, searchStr,
                       SetVisited(visited, row, col, TRUE), row, col, index, 1)

DfsDirections(puzzle, searchStr, visited, row, col, index, k) ==
    IF k > Len(directions)
    THEN [found |-> FALSE, visited |-> SetVisited(visited, row, col, FALSE)]
    ELSE LET r == dfs(puzzle, searchStr, visited,
                      row + directions[k][1], col + directions[k][2], index + 1)
         IN  IF r.found THEN r
             ELSE DfsDirections(puzzle, searchStr, r.visited, row, col, index, k + 1)

\* The two loops over the start cells from cell number n (row-major,
\* 0-based) on; starts collects the visited array each start cell was tried
\* with.
RECURSIVE FindFrom(_, _, _, _, _)
FindFrom(puzzle, searchStr, visited, n, starts) ==
    LET rows == Len(puzzle)
        cols == Len(puzzle[1])
    IN  IF n >= rows * cols
        THEN [found |-> FALSE, starts |-> starts]
        ELSE LET r == dfs(puzzle, searchStr, visited, n \div cols, n % cols, 0)
             IN  IF r.found THEN [found |-> TRUE, starts |-> Append(starts, visited)]
                 ELSE FindFrom(puzzle, searchStr, r.visited, n + 1, Append(starts, visited))

\* What a call gives: the value returned and, for the record, the visited
\* array at each start cell; a SyntaxError when the file does not parse.
findStringInSnakingPuzzle(puzzle, searchStr) ==
    IF Part000Parses
    THEN LET r == FindFrom(puzzle, searchStr,
                           [i \in 1..Len(puzzle) |-> [j \in 1..Len(puzzle[1]) |-> FALSE]],
                           0, <<>>)
         IN  [threw |-> "", found |-> r.found, starts |-> r.starts]
    ELSE [threw |-> "SyntaxError", found |-> FALSE, starts |-> <<>>]

InitSnaking ==
    /\ snaking \in
         {[pc |-> "call", puzzle |-> p, searchStr |-> x,
           threw |-> "", found |-> FALSE, starts |-> <<>>] :
            p \in Puzzles, x \in SeqUpTo(PuzzleChars, MaxSearchLen) \ {<<>>}}
    /\ AloneSnaking

\* var found = findStringInSnakingPuzzle(puzzle, searchStr)
FindStringInSnakingPuzzle ==
    /\ snaking.pc = "call"
    /\ LET r == findStringInSnakingPuzzle(snaking.puzzle, snaking.searchStr)
       IN  snaking' = [snaking EXCEPT !.pc = "done", !.threw = r.threw,
                                      !.found = r.found, !.starts = r.starts]
    /\ OnlySnaking

NextSnaking == FindStringInSnakingPuzzle

SpecSnaking == InitSnaking /\ [][NextSnaking]_vars

\* There is a sequence of cells, each next to the one before, no cell
\* twice, whose characters spell the string.
Snakes(puzzle, searchStr) ==
    LET cells == (1..Len(puzzle)) \X (1..Len(puzzle[1]))
        abs(x) == IF x < 0 THEN -x ELSE x
    IN  \E path \in [1..Len(searchStr) -> cells] :
            /\ \A k \in 1..Len(searchStr) : puzzle[path[k][1]][path[k][2]] = searchStr[k]
            /\ \A k \in 1..(Len(searchStr) - 1) :
                  abs(path[k][1] - path[k + 1][1]) + abs(path[k][2] - path[k + 1][2]) = 1
            /\ \A k, l \in 1..Len(searchStr) : k # l => path[k] # path[l]

\* C13: for a rectangular grid and a non-empty string the call returns
\* true if and only if the string can be traced through adjacent cells,
\* no cell twice; and every start cell is tried with no cell marked
\* visited.
FindsExactlySnakes ==
    snaking.pc = "done" =>
        /\ snaking.threw = ""
        /\ snaking.found = Snakes(snaking.puzzle, snaking.searchStr)
        /\ \A n \in 1..Len(snaking.starts) :
              \A i \in 1..Len(snaking.puzzle) : \A j \in 1..Len(snaking.puzzle[1]) :
                  ~snaking.starts[n][i][j]

\* ------------------------------------------------------------------------
\* canDominoesMakeRow
\* ------------------------------------------------------------------------

\* Most tiles of a list and largest value of a tile's half.
MaxTiles == 3
MaxPip == 2

Tiles == (0..MaxPip) \X (0..MaxPip)

Includes(seq, x) == \E k \in 1..Len(seq) : seq[k] = x

RECURSIVE tryChain(_, _, _)
RECURSIVE TryChainFrom(_, _, _, _)

\* The loop of tryChain that never turns a tile round.
TryChainFromAsGiven(tiles, used, current, i) ==
    IF i >= Len(tiles) THEN FALSE
    ELSE IF ~Includes(used, i)
            /\ current = tiles[i + 1][1]
            /\ tryChain(tiles, Append(used, i), tiles[i + 1][2])
    THEN TRUE
    ELSE TryChainFrom(tiles, used, current, i + 1)

\* The loop of tryChain from tile i (0-based) on.
TryChainFrom(tiles, used, current, i) ==
    IF i >= Len(tiles) THEN FALSE
    ELSE LET a == tiles[i + 1][1]
             b == tiles[i + 1][2]
         IN  IF ~Includes(used, i)
                /\ \/ current = a /\ tryChain(tiles, Append(used, i), b)
                   \/ current = b /\ tryChain(tiles, Append(used, i), a)
             THEN TRUE
             ELSE TryChainFrom(tiles, used, current, i + 1)

\* tryChain(used, current, target) for the list tiles (the source's
\* dominoes); target is never read.
tryChain(tiles, used, current) ==
    IF Len(used) = Len(tiles) THEN TRUE
    ELSE TryChainFrom(tiles, used, current, 0)

InitDominoes ==
    /\ dominoes \in {[pc |-> "call", dominoes |-> d, i |-> 0, result |-> FALSE] :
                        d \in SeqUpTo(Tiles, MaxTiles)}
    /\ AloneDominoes

\* if (!dominoes.length) return true
DominoesEmpty ==
    /\ dominoes.pc = "call"
    /\ Len(dominoes.dominoes) = 0
    /\ dominoes' = [dominoes EXCEPT !.pc = "done", !.result = TRUE]
    /\ OnlyDominoes

\* One turn of the last loop: tile i starts the row, one way round or
\* the other.
DominoesStartWith ==
    /\ dominoes.pc = "call"
    /\ Len(dominoes.dominoes) # 0
    /\ dominoes.i < Len(dominoes.dominoes)
    /\ LET a == dominoes.dominoes[dominoes.i + 1][1]
           b == dominoes.dominoes[dominoes.i + 1][2]
       IN  IF \/ tryChain(dominoes.dominoes, <<dominoes.i>>, b)
              \/ tryChain(dominoes.dominoes, <<dominoes.i>>, a)
           THEN dominoes' = [dominoes EXCEPT !.pc = "done", !.result = TRUE]
           ELSE dominoes' = [dominoes EXCEPT !.i = dominoes.i + 1]
    /\ OnlyDominoes

\* return false, after the last loop
DominoesNoRow ==
    /\ dominoes.pc = "call"
    /\ Len(dominoes.dominoes) # 0
    /\ dominoes.i >= Len(dominoes.dominoes)
    /\ dominoes' = [dominoes EXCEPT !.pc = "done", !.result = FALSE]
    /\ OnlyDominoes

NextDominoes == DominoesEmpty \/ DominoesStartWith \/ DominoesNoRow

SpecDominoes == InitDominoes /\ [][NextDominoes]_vars

\* The tiles can be put in some order, each some way round, so that every
\* tile's right value is the next tile's left value.
MakesRow(tiles) ==
    LET n == Len(tiles)
    IN  \E place \in {f \in [1..n -> 1..n] : \A k, l \in 1..n : k # l => f[k] # f[l]} :
        \E turned \in [1..n -> BOOLEAN] :
            LET left(k) == IF turned[k] THEN tiles[place[k]][2] ELSE tiles[place[k]][1]
                right(k) == IF turned[k] THEN tiles[place[k]][1] ELSE tiles[place[k]][2]
            IN  \A k \in 1..(n - 1) : right(k) = left(k + 1)

\* C14: canDominoesMakeRow returns true if and only if all the tiles, each
\* used once and each either way round, can be ordered so that the right
\* value of every tile is the left value of the next.
RowExactlyWhenChained ==
    dominoes.pc = "done" => dominoes.result = MakesRow(dominoes.dominoes)

\* A row was found for three tiles that do not chain in the order and the
\* orientation given.
RowExactlyWhenChainedWitness ==
    /\ dominoes.pc = "done"
    /\ dominoes.result
    /\ Len(dominoes.dominoes) = 3
    /\ \A k \in 1..2 : dominoes.dominoes[k][2] # dominoes.dominoes[k + 1][1]

\* ------------------------------------------------------------------------
\* extractRanges
\* ------------------------------------------------------------------------

\* Largest integer of a list.
MaxNum == 10

\* The elements of a set of integers in ascending order.
RECURSIVE Ascending(_)
Ascending(S) ==
    IF S = {} THEN <<>>
    ELSE LET least == CHOOSE x \in S : \A y \in S : x <= y
         IN  <<least>> \o Ascending(S \ {least})

\* `${n}` for an integer n >= 0
RECURSIVE ToDecimal(_)
ToDecimal(n) ==
    IF n < 10 THEN <<Digits[n + 1]>>
    ELSE ToDecimal(n \div 10) \o <<Digits[(n % 10) + 1]>>

\* A piece that writes a run of two as a range.
PieceRangeOfTwo(start, prev) ==
    IF start = prev THEN ToDecimal(start)
    ELSE ToDecimal(start) \o <<"-">> \o ToDecimal(prev)

\* What is pushed for the run start..prev.
Piece(start, prev) ==
    IF start = prev THEN ToDecimal(start)
    ELSE IF prev - start = 1 THEN ToDecimal(start) \o <<",">> \o ToDecimal(prev)
    ELSE ToDecimal(start) \o <<"-">> \o ToDecimal(prev)

\* result.join(',')
RECURSIVE JoinComma(_)
JoinComma(arr) ==
    IF arr = <<>> THEN <<>>
    ELSE IF Len(arr) = 1 THEN arr[1]
    ELSE arr[1] \o <<",">> \o JoinComma(Tail(arr))

InitRanges ==
    /\ ranges \in {[pc |-> "call", nums |-> Ascending(S), result |-> <<>>,
                    start |-> 0, prev |-> 0, i |-> 0, returned |-> <<>>] :
                      S \in SUBSET (0..MaxNum)}
    /\ AloneRanges

\* if (!nums.length) return ''
RangesEmpty ==
    /\ ranges.pc = "call"
    /\ Len(ranges.nums) = 0
    /\ ranges' = [ranges EXCEPT !.pc = "done", !.returned = <<>>]
    /\ OnlyRanges

\* result = [], start = prev = nums[0], i = 1
RangesBegin ==
    /\ ranges.pc = "call"
    /\ Len(ranges.nums) # 0
    /\ ranges' = [ranges EXCEPT !.pc = "loop", !.start = ranges.nums[1],
                                !.prev = ranges.nums[1], !.i = 1]
    /\ OnlyRanges

\* One turn of the loop, i++ included.
RangesTurn ==
    /\ ranges.pc = "loop"
    /\ ranges.i <= Len(ranges.nums)
    /\ LET i == ranges.i
           nums == ranges.nums
       IN  IF i = Len(nums) \/ nums[i + 1] # ranges.prev + 1
           THEN IF i < Len(nums)
                THEN ranges' = [ranges EXCEPT
                                  !.result = Append(ranges.result, Piece(ranges.start, ranges.prev)),
                                  !.start = nums[i + 1], !.prev = nums[i + 1], !.i = i + 1]
                ELSE ranges' = [ranges EXCEPT
                                  !.result = Append(ranges.result, Piece(ranges.start, ranges.prev)),
                                  !.i = i + 1]
           ELSE ranges' = [ranges EXCEPT !.prev = nums[i + 1], !.i = i + 1]
    /\ OnlyRanges

\* return result.join(',')
RangesReturn ==
    /\ ranges.pc = "loop"
    /\ ranges.i > Len(ranges.nums)
    /\ ranges' = [ranges EXCEPT !.pc = "done", !.returned = JoinComma(ranges.result)]
    /\ OnlyRanges

NextRanges == RangesEmpty \/ RangesBegin \/ RangesTurn \/ RangesReturn

SpecRanges == InitRanges /\ [][NextRanges]_vars

\* The position where the maximal run of consecutive integers that
\* starts at position k ends.
RunEnd(nums, k) ==
    CHOOSE e \in k..Len(nums) :
        /\ \A j \in k..(e - 1) : nums[j + 1] = nums[j] + 1
        /\ e = Len(nums) \/ nums[e + 1] # nums[e] + 1

\* The rendering of the maximal runs from position k on: 'start-end' for
\* three or more, 'start', 'end' for two, the integer for one.
RECURSIVE RenderRuns(_, _)
RenderRuns(nums, k) ==
    IF k > Len(nums) THEN <<>>
    ELSE LET e == RunEnd(nums, k)
             run == IF e - k >= 2
                    THEN <<ToDecimal(nums[k]) \o <<"-">> \o ToDecimal(nums[e])>>
                    ELSE [j \in 1..(e - k + 1) |-> ToDecimal(nums[k + j - 1])]
         IN  run \o RenderRuns(nums, e + 1)

\* The pieces of str between the separators.
RECURSIVE PiecesLoop(_, _, _, _)
PiecesLoop(str, separator, k, piece) ==
    IF k > Len(str) THEN <<piece>>
    ELSE IF str[k] = separator
    THEN <<piece>> \o PiecesLoop(str, separator, k + 1, <<>>)
    ELSE PiecesLoop(str, separator, k + 1, piece \o <<str[k]>>)

Pieces(str, separator) == IF str = <<>> THEN <<>> ELSE PiecesLoop(str, separator, 1, <<>>)

\* The integers a rendering stands for.
RECURSIVE ExpandPieces(_)
ExpandPieces(pieces) ==
    IF pieces = <<>> THEN <<>>
    ELSE LET ends == Pieces(pieces[1], "-")
             from == ParseDigits(ends[1], 0)
             to == ParseDigits(ends[Len(ends)], 0)
         IN  [j \in 1..(to - from + 1) |-> from + j - 1] \o ExpandPieces(Tail(pieces))

Expand(str) == ExpandPieces(Pieces(str, ","))

\* C15: for a strictly increasing list of non-negative integers the
\* result is the comma-joined rendering of its maximal runs, 'start-end'
\* for runs of three or more, 'start,end' for runs of two, the integer
\* alone otherwise; and expanding the result gives back the list.
RangesRenderRuns ==
    ranges.pc = "done" =>
        /\ ranges.returned = JoinComma(RenderRuns(ranges.nums, 1))
        /\ Expand(ranges.returned) = ranges.nums

\* A list with a run of three, a run of two, a single integer and a
\* two-digit one has been rendered.
RangesRenderRunsWitness ==
    /\ ranges.pc = "done"
    /\ ranges.nums = <<0, 1, 2, 4, 5, 7, 10>>
    /\ ranges.returned = <<"0", "-", "2", ",", "4", ",", "5", ",", "7", ",", "1", "0">>

\* ------------------------------------------------------------------------
\* getZigZagMatrix
\* ------------------------------------------------------------------------

\* Largest dimension asked for.
MaxDimension == 7

\* matrix[i][j] = value, for a row i that exists: a column past the row's
\* end lengthens the row, leaving holes between.
SetCell(matrix, i, j, value) ==
    LET row == matrix[i + 1]
        length == IF j + 1 > Len(row) THEN j + 1 ELSE Len(row)
    IN  [matrix EXCEPT ![i + 1] =
            [k \in 1..length |->
                IF k = j + 1 THEN value ELSE IF k <= Len(row) THEN row[k] ELSE "empty"]]

\* The if (up) ... else ... of the loop with the two tests of the upward
\* branch in the other order.
MovedTopFirst(z) ==
    IF z.up
    THEN IF z.i = 0 THEN [z EXCEPT !.j = z.j + 1, !.up = FALSE]
         ELSE IF z.j = z.n - 1 THEN [z EXCEPT !.i = z.i + 1, !.up = FALSE]
         ELSE [z EXCEPT !.i = z.i - 1, !.j = z.j + 1]
    ELSE IF z.i = z.n - 1 THEN [z EXCEPT !.j = z.j + 1, !.up = TRUE]
         ELSE IF z.j = 0 THEN [z EXCEPT !.i = z.i + 1, !.up = TRUE]
         ELSE [z EXCEPT !.i = z.i + 1, !.j = z.j - 1]

\* The if (up) ... else ... of the loop.
Moved(z) ==
    IF z.up
    THEN IF z.j = z.n - 1 THEN [z EXCEPT !.i = z.i + 1, !.up = FALSE]
         ELSE IF z.i = 0 THEN [z EXCEPT !.j = z.j + 1, !.up = FALSE]
         ELSE [z EXCEPT !.i = z.i - 1, !.j = z.j + 1]
    ELSE IF z.i = z.n - 1 THEN [z EXCEPT !.j = z.j + 1, !.up = TRUE]
         ELSE IF z.j = 0 THEN [z EXCEPT !.i = z.i + 1, !.up = TRUE]
         ELSE [z EXCEPT !.i = z.i + 1, !.j = z.j - 1]

InitZigZag ==
    /\ zigzag \in {[pc |-> "loop", n |-> n,
                    matrix |-> [r \in 1..n |-> [c \in 1..n |-> 0]],
                    value |-> 0, i |-> 0, j |-> 0, up |-> TRUE, threw |-> ""] :
                      n \in 1..MaxDimension}
    /\ AloneZigZag

\* One turn of the while loop; matrix[i] is undefined for a row that does
\* not exist, and the assignment then throws.
ZigZagTurn ==
    /\ zigzag.pc = "loop"
    /\ zigzag.value < zigzag.n * zigzag.n
    /\ IF zigzag.i < 0 \/ zigzag.i >= zigzag.n
       THEN zigzag' = [zigzag EXCEPT !.pc = "done", !.threw = "TypeError"]
       ELSE zigzag' = Moved([zigzag EXCEPT
                               !.matrix = SetCell(zigzag.matrix, zigzag.i, zigzag.j, zigzag.value),
                               !.value = zigzag.value + 1])
    /\ OnlyZigZag

\* return matrix
ZigZagReturn ==
    /\ zigzag.pc = "loop"
    /\ zigzag.value >= zigzag.n * zigzag.n
    /\ zigzag' = [zigzag EXCEPT !.pc = "done"]
    /\ OnlyZigZag

NextZigZag == ZigZagTurn \/ ZigZagReturn

SpecZigZag == InitZigZag /\ [][NextZigZag]_vars

\* Every row of the matrix has n cells, as at the start: nothing was
\* written outside the grid.
InsideGrid ==
    /\ zigzag.threw = ""
    /\ Len(zigzag.matrix) = zigzag.n
    /\ \A r \in 1..zigzag.n : Len(zigzag.matrix[r]) = zigzag.n

\* C16: for n >= 1 every write falls inside the n x n grid, and the grid
\* returned holds each of 0..n*n-1 exactly once, smaller values on
\* earlier anti-diagonals, the anti-diagonals walked in alternating
\* directions (odd ones downwards, even ones upwards), 0 at (0,0) and 1
\* at (0,1).
ZigZagOrder ==
    zigzag.pc # "idle" =>
        /\ InsideGrid
        /\ zigzag.pc = "done" =>
             LET n == zigzag.n
                 at(r, c) == zigzag.matrix[r + 1][c + 1]
                 cells == (0..(n - 1)) \X (0..(n - 1))
             IN  /\ \A v \in 0..(n * n - 1) :
                       Cardinality({p \in cells : at(p[1], p[2]) = v}) = 1
                 /\ \A p, q \in cells :
                       p[1] + p[2] < q[1] + q[2] => at(p[1], p[2]) < at(q[1], q[2])
                 /\ \A p, q \in cells :
                       (p[1] + p[2] = q[1] + q[2] /\ p[1] < q[1]) =>
                           IF (p[1] + p[2]) % 2 = 1
                           THEN at(p[1], p[2]) < at(q[1], q[2])
                           ELSE at(p[1], p[2]) > at(q[1], q[2])
                 /\ at(0, 0) = 0
                 /\ n >= 2 => at(0, 1) = 1

\* The 4 x 4 matrix of the documentation has been returned.
ZigZagOrderWitness ==
    /\ zigzag.pc = "done"
    /\ zigzag.n = 4
    /\ zigzag.matrix = << <<0, 1, 5, 6>>, <<2, 4, 7, 12>>, <<3, 8, 11, 13>>, <<9, 10, 14, 15>> >>

\* ------------------------------------------------------------------------
\* getFigureRectangles
\* ------------------------------------------------------------------------

\* The figures of the model are drawn on a grid of blocks: at most
\* MaxBlockCols x MaxBlockRows blocks, BlockWidth x BlockHeight characters
\* from one grid line to the next, at most MaxRectangles rectangles.
MaxBlockCols == 3
MaxBlockRows == 2
BlockWidth == 3
BlockHeight == 2
MaxRectangles == 3

\* The rectangles of the grid, by the positions of their corners.
Rectangles ==
    {r \in [x1 : {a * BlockWidth : a \in 0..MaxBlockCols},
            y1 : {c * BlockHeight : c \in 0..MaxBlockRows},
            x2 : {b * BlockWidth : b \in 0..MaxBlockCols},
            y2 : {d * BlockHeight : d \in 0..MaxBlockRows}] :
        r.x1 < r.x2 /\ r.y1 < r.y2}

\* Two rectangles share no more than border.
Apart(r, q) == r.x2 <= q.x1 \/ q.x2 <= r.x1 \/ r.y2 <= q.y1 \/ q.y2 <= r.y1

\* The sets of rectangles that make a figure: pairwise apart, the
\* leftmost at column 0 and the topmost at line 0.
Tilings(pool) ==
    {t \in {{f[k] : k \in DOMAIN f} : f \in SeqUpTo(pool, MaxRectangles)} :
        /\ t # {}
        /\ \A r, q \in t : r # q => Apart(r, q)
        /\ \E r \in t : r.x1 = 0
        /\ \E r \in t : r.y1 = 0}

\* The character of the drawing of the rectangles at column x of line y.
Drawn(tiling, x, y) ==
    IF \E r \in tiling : x \in {r.x1, r.x2} /\ y \in {r.y1, r.y2} THEN "+"
    ELSE IF \E r \in tiling : y \in {r.y1, r.y2} /\ r.x1 < x /\ x < r.x2 THEN "-"
    ELSE IF \E r \in tiling : x \in {r.x1, r.x2} /\ r.y1 < y /\ y < r.y2 THEN "|"
    ELSE " "

\* The figure: the lines of the drawing, each ended by a line feed.
RECURSIVE DrawnLines(_, _, _, _)
DrawnLines(tiling, y, lastX, lastY) ==
    IF y > lastY THEN <<>>
    ELSE [k \in 1..(lastX + 1) |-> Drawn(tiling, k - 1, y)] \o <<"\n">>
         \o DrawnLines(tiling, y + 1, lastX, lastY)

FigureOf(tiling) ==
    LET lastX == CHOOSE x \in {r.x2 : r \in tiling} : \A r \in tiling : r.x2 <= x
        lastY == CHOOSE y \in {r.y2 : r \in tiling} : \A r \in tiling : r.y2 <= y
    IN  DrawnLines(tiling, 0, lastX, lastY)

\* lines[y][x]: undefined past the end of the line.
LineChar(lines, x, y) ==
    IF x < Len(lines[y + 1]) THEN lines[y + 1][x + 1] ELSE "undefined"

\* line += ch
Text(ch) == IF ch = "undefined" THEN <<"u", "n", "d", "e", "f", "i", "n", "e", "d">> ELSE <<ch>>

isRectangle(lines, width, height, x1, y1, x2, y2) ==
    IF x2 >= width \/ y2 >= height THEN FALSE
    ELSE IF \/ LineChar(lines, x1, y1) # "+" \/ LineChar(lines, x2, y1) # "+"
            \/ LineChar(lines, x1, y2) # "+" \/ LineChar(lines, x2, y2) # "+"
    THEN FALSE
    ELSE IF \E x \in (x1 + 1)..(x2 - 1) :
               LineChar(lines, x, y1) # "-" \/ LineChar(lines, x, y2) # "-"
    THEN FALSE
    ELSE IF \E y \in (y1 + 1)..(y2 - 1) :
               LineChar(lines, x1, y) # "|" \/ LineChar(lines, x2, y) # "|"
    THEN FALSE
    ELSE TRUE

\* used after markUsed(x1, y1, x2, y2)
markUsed(used, x1, y1, x2, y2) ==
    [y \in 1..Len(used) |->
        [x \in 1..Len(used[y]) |->
            IF \/ (y - 1) \in {y1, y2} /\ x1 <= x - 1 /\ x - 1 <= x2
               \/ (x - 1) \in {x1, x2} /\ y1 <= y - 1 /\ y - 1 <= y2
            THEN TRUE
            ELSE used[y][x]]]

RECURSIVE RectangleLine(_, _, _, _)
RectangleLine(lines, x, x2, y) ==
    IF x > x2 THEN <<>> ELSE Text(LineChar(lines, x, y)) \o RectangleLine(lines, x + 1, x2, y)

RECURSIVE RectangleLines(_, _, _, _, _)
RectangleLines(lines, x1, y, x2, y2) ==
    IF y > y2 THEN <<>>
    ELSE IF y = y2 THEN RectangleLine(lines, x1, x2, y)
    ELSE RectangleLine(lines, x1, x2, y) \o <<"\n">> \o RectangleLines(lines, x1, y + 1, x2, y2)

getRectangleString(lines, x1, y1, x2, y2) ==
    RectangleLines(lines, x1, y1, x2, y2) \o <<"\n">>

\* The four loops from where they stand to the next yield or to their
\* end; used changes only after a yield, so the loops stop at the first
\* position, in their order, that passes their tests. Before(a, b, c, d):
\* the pair (a, b) comes no later than (c, d) in two nested loops.
Before(a, b, c, d) == a < c \/ (a = c /\ b <= d)

\* The turns of the y2 and x2 loops of corner (x1, y1), from (y2, x2) on,
\* that find a rectangle.
Candidates(f, x1, y1, y2, x2) ==
    {p \in ((y1 + 2)..(f.height - 1)) \X ((x1 + 2)..(f.width - 1)) :
        /\ Before(y2, x2, p[1], p[2])
        /\ isRectangle(f.lines, f.width, f.height, x1, y1, p[2], p[1])}

\* yield getRectangleString(x1, y1, x2, y2), at the first of a set of
\* turns
YieldFirst(f, x1, y1, candidates) ==
    LET p == CHOOSE c \in candidates : \A d \in candidates : Before(c[1], c[2], d[1], d[2])
    IN  [f EXCEPT !.pc = "suspended", !.x1 = x1, !.y1 = y1, !.y2 = p[1], !.x2 = p[2],
                  !.yielded = Append(f.yielded, getRectangleString(f.lines, x1, y1, p[2], p[1]))]

\* From the top of the x1 loop's body at (y1, x1): the corners that are
\* '+', are not used and start a rectangle.
NextCorner(f) ==
    LET corners == {p \in (0..(f.height - 1)) \X (0..(f.width - 1)) :
                      /\ Before(f.y1, f.x1, p[1], p[2])
                      /\ LineChar(f.lines, p[2], p[1]) = "+"
                      /\ ~f.used[p[1] + 1][p[2] + 1]
                      /\ Candidates(f, p[2], p[1], p[1] + 2, p[2] + 2) # {}}
    IN  IF corners = {} THEN [f EXCEPT !.pc = "done", !.y1 = f.height, !.x1 = 0]
        ELSE LET p == CHOOSE c \in corners : \A d \in corners : Before(c[1], c[2], d[1], d[2])
             IN  YieldFirst(f, p[2], p[1], Candidates(f, p[2], p[1], p[1] + 2, p[2] + 2))

\* From the test of the x2 loop at (y2, x2).
NextCandidate(f) ==
    IF Candidates(f, f.x1, f.y1, f.y2, f.x2) # {}
    THEN YieldFirst(f, f.x1, f.y1, Candidates(f, f.x1, f.y1, f.y2, f.x2))
    ELSE NextCorner([f EXCEPT !.x1 = f.x1 + 1])

InitFigure ==
    /\ figure \in {[pc |-> "start", tiling |-> t, figure |-> FigureOf(t),
                    lines |-> <<>>, height |-> 0, width |-> 0, used |-> <<>>,
                    x1 |-> 0, y1 |-> 0, x2 |-> 0, y2 |-> 0, yielded |-> <<>>] :
                      t \in Tilings(Rectangles)}
    /\ AloneFigure

\* The first next(): from the top of the body to the first yield.
FigureStart ==
    /\ figure.pc = "start"
    /\ LET lines == SplitLines(Trim(figure.figure))
           height == Len(lines)
           width == Len(lines[1])
       IN  figure' = NextCorner([figure EXCEPT
                                   !.lines = lines, !.height = height, !.width = width,
                                   !.used = [y \in 1..height |-> [x \in 1..width |-> FALSE]],
                                   !.y1 = 0, !.x1 = 0])
    /\ OnlyFigure

\* A later next(): markUsed, x2++, and on to the next yield.
FigureResume ==
    /\ figure.pc = "suspended"
    /\ figure' = NextCandidate([figure EXCEPT
                                  !.used = markUsed(figure.used, figure.x1, figure.y1,
                                                    figure.x2, figure.y2),
                                  !.x2 = figure.x2 + 1])
    /\ OnlyFigure

NextFigure == FigureStart \/ FigureResume

SpecFigure == InitFigure /\ [][NextFigure]_vars

\* A rectangle on its own: '+' at the corners, '-' and '|' between.
OnItsOwn(r) == FigureOf({[x1 |-> 0, y1 |-> 0, x2 |-> r.x2 - r.x1, y2 |-> r.y2 - r.y1]})

\* C17: for a figure drawn from rectangles that share no more than
\* border, the generator yields every one of them exactly once (a text
\* as often as there are rectangles of its size) and nothing else.
YieldsTheRectangles ==
    figure.pc = "done" =>
        /\ \A r \in figure.tiling :
              Cardinality({k \in 1..Len(figure.yielded) : figure.yielded[k] = OnItsOwn(r)})
                = Cardinality({q \in figure.tiling : OnItsOwn(q) = OnItsOwn(r)})
        /\ \A k \in 1..Len(figure.yielded) :
              \E r \in figure.tiling : figure.yielded[k] = OnItsOwn(r)

\* ------------------------------------------------------------------------
\* The katas together: one of them is called.
\* ------------------------------------------------------------------------

Init ==
    \/ InitUrlShortener \/ InitStock \/ InitCssSelector \/ InitPermutations
    \/ InitBraces \/ InitPoker \/ InitWrap \/ InitBank \/ InitCompass
    \/ InitMerge \/ InitSnaking \/ InitDominoes \/ InitRanges \/ InitZigZag \/ InitFigure

Next ==
    \/ NextUrlShortener \/ NextStock \/ NextCssSelector \/ NextPermutations
    \/ NextBraces \/ NextPoker \/ NextWrap \/ NextBank \/ NextCompass
    \/ NextMerge \/ NextSnaking \/ NextDominoes \/ NextRanges \/ NextZigZag \/ NextFigure

Spec == Init /\ [][Next]_vars

====
